---- MODULE Spec2Model ----
(***************************************************************************)
(* Model of the systemiq-ai/middleware relay: the AuthHandler of           *)
(* auth/auth.go (Login, RefreshToken, GetToken, the background refresher,  *)
(* StopRefresher) and the ObserverMiddlewareServer of main.go (main,       *)
(* reconnectObserver, ObserveData).                                        *)
(*                                                                         *)
(* Tasks: "main" runs init() and main(); "bg" is the goroutine started by  *)
(* NewAuthHandler (startRefresher); the members of Handlers are gRPC       *)
(* handler goroutines, each running one ObserveData call at a time.        *)
(* Time is counted in minutes (the ticker period).                         *)
(***************************************************************************)
EXTENDS Integers, Sequences, FiniteSets, TLC

\* ---------------------------------------------------------------- bounds
MaxTime == 2
MaxHandles == 3
MaxStopCalls == 2
MaxConnectFails == 1

\* ------------------------------------------------------ program constants
\* 5*time.Minute: the refresher renews when less than this remains
RefreshThreshold == 5
\* time.Time{} (the zero time, before every instant the clock can show)
ZeroTime == 0 - 1
\* a claims set without a numeric "exp"
NoExp == 0 - 2

Handlers == {"h1", "h2"}
\* the handler goroutines that take calls
Callers == {"h1"}
Tasks == {"main", "bg"} \cup Handlers
NoTask == "none"
NoHandle == 0

\* the "exp" claims (minutes on the clock) of the access tokens the identity
\* endpoint issues: one that runs out within the horizon, one that does not
ExpClaims == {1, MaxTime + RefreshThreshold}
\* the other tenant that may appear in identity-endpoint responses
OtherClientID == 3

\* a token a caller may put in its request: a string this process never
\* obtained from the identity endpoint
CallerToken == [cid |-> OtherClientID, exp |-> NoExp]
\* the Token field of an inbound request: absent, or set by the caller
CallerTokens == {[cid |-> 0, exp |-> NoExp], CallerToken}

\* values of the environment variables read by init()
EnvClientIDs == {"", "abc", "0", "2"}
EnvSecrets == {"", "set"}

VARIABLES
  env,            \* the process environment (AUTH_CLIENT_ID, AUTH_EMAIL, AUTH_PASSWORD, TEST_MODE)
  authClientID,   \* auth.authClientID
  testMode,       \* main.testMode
  pc,             \* pc[t]: the position of task t
  loc,            \* loc[t]: the locals of task t
  accessToken,    \* AuthHandler.accessToken
  refreshToken,   \* AuthHandler.refreshToken
  expiry,         \* AuthHandler.expiry
  authMu,         \* holder of AuthHandler.mu
  tickPending,    \* a tick is buffered in ticker.C
  tickerRunning,  \* the ticker exists and has not been stopped
  stopChanClosed, \* AuthHandler.stopChan is closed
  stopCalls,      \* number of StopRefresher invocations so far
  conn,           \* ObserverMiddlewareServer.conn
  client,         \* ObserverMiddlewareServer.client (the handle it is bound to)
  connMu,         \* writer holding ObserverMiddlewareServer.mu
  mainConn,       \* the local variable conn of main()
  closed,         \* handles on which Close() has taken effect
  nextHandle,     \* number of handles created so far
  now,            \* the clock
  exitCause       \* why the process ended ("none" while it runs)

vars == <<env, authClientID, testMode, pc, loc, accessToken, refreshToken, expiry,
          authMu, tickPending, tickerRunning, stopChanClosed, stopCalls, conn,
          client, connMu, mainConn, closed, nextHandle, now, exitCause>>

authVars == <<accessToken, refreshToken, expiry>>
connVars == <<conn, client, connMu, mainConn, closed, nextHandle>>
refresherVars == <<tickPending, tickerRunning, stopChanClosed, stopCalls>>
cfgVars == <<env, authClientID, testMode>>

\* ----------------------------------------------------------------- tokens
\* An access token is a JWT: the client it belongs to and the "exp" claim it
\* carries (NoExp: none, or not a JWT at all). A refresh token is opaque.
EmptyToken == [cid |-> 0, exp |-> NoExp]
EmptyRefresh == [cid |-> 0]

AccessTokenFor(c, e) == [cid |-> c, exp |-> e]
RefreshTokenFor(c) == [cid |-> c]

\* parseTokenExpiry: the "exp" claim as a time, or the zero time and an error
parseTokenExpiry(tokenString) ==
  IF tokenString = EmptyToken \/ tokenString.exp = NoExp
    THEN [t |-> ZeroTime, err |-> TRUE]
    ELSE [t |-> tokenString.exp, err |-> FALSE]

\* strconv.Atoi on the values AUTH_CLIENT_ID takes here
Atoi(s) ==
  CASE s = "2" -> [v |-> 2, err |-> FALSE]
    [] s = "0" -> [v |-> 0, err |-> FALSE]
    [] OTHER -> [v |-> 0, err |-> TRUE]

\* init(): the configuration is accepted
ConfigValid(e) ==
  /\ e.clientID # ""
  /\ ~Atoi(e.clientID).err
  /\ Atoi(e.clientID).v # 0
  /\ e.email # ""
  /\ e.password # ""

\* ----------------------------------------------------------------- locals
InitLocals ==
  [ found |-> [at |-> EmptyToken, rt |-> EmptyRefresh], \* the decoded response entry
    err |-> "nil",               \* the error in hand
    jwtToken |-> EmptyToken,     \* ObserveData: jwtToken
    sentToken |-> EmptyToken,    \* the Token field of forwardedReq
    reqToken |-> EmptyToken,     \* the Token field of req (EmptyToken: absent)
    client |-> NoHandle,         \* ObserveData: client
    newConn |-> NoHandle,        \* ObserveData: newConn
    oldConn |-> NoHandle,        \* ObserveData: oldConn
    response |-> "none",         \* ObserveData: response.Status
    ret |-> "none",              \* what ObserveData returned
    \* bookkeeping of the current call
    gotToken |-> FALSE,          \* GetToken was invoked
    atCheck |-> "none",          \* the clock against expiryUTC when GetToken compared them
    nRefresh |-> 0,              \* RefreshToken invocations
    nLogin |-> 0,                \* Login invocations
    refreshFailed |-> FALSE,     \* the RefreshToken invocation returned an error
    wrote |-> FALSE,             \* a Login/RefreshToken of this call changed the stored credential
    nSend |-> 0,                 \* downstream sends
    nReconnect |-> 0,            \* reconnectObserver invocations
    firstErr |-> "nil",          \* the error of the first send
    \* the order in which the identity endpoint issued the responses in hand
    issuedAfter |-> {},          \* the tasks whose response in hand was issued before found
    overtaken |-> FALSE ]        \* a response issued after found has been stored since

Alive == exitCause = "none"

\* the tasks and their locals once the process has ended: all goroutines are gone
EndedPc == [t \in Tasks |-> "exited"]
EndedLoc == [t \in Tasks |-> InitLocals]

Init ==
  /\ env \in [clientID : EnvClientIDs, email : EnvSecrets, password : EnvSecrets,
              testMode : BOOLEAN]
  /\ authClientID = 0
  /\ testMode = FALSE
  /\ pc = [t \in Tasks |-> IF t = "main" THEN "init" ELSE "off"]
  /\ loc = [t \in Tasks |-> InitLocals]
  /\ accessToken = EmptyToken
  /\ refreshToken = EmptyRefresh
  /\ expiry = ZeroTime
  /\ authMu = NoTask
  /\ tickPending = FALSE
  /\ tickerRunning = FALSE
  /\ stopChanClosed = FALSE
  /\ stopCalls = 0
  /\ conn = NoHandle
  /\ client = NoHandle
  /\ connMu = NoTask
  /\ mainConn = NoHandle
  /\ closed = {}
  /\ nextHandle = 0
  /\ now = 0
  /\ exitCause = "none"

\* Returned with a response of status "error" turned into an error return
ReturnedStatusAsError(l, outcome) ==
  LET done == [InitLocals EXCEPT !.gotToken = l.gotToken]
  IN IF outcome = "success"
       THEN [done EXCEPT !.response = outcome, !.err = "nil", !.ret = "success"]
       ELSE [done EXCEPT !.err = outcome, !.ret = "error"]

\* ObserveData, lines 121-129 and 162-171: what the call returns for the outcome of
\* GetToken or of its last send; with the return the call's locals are gone
Returned(l, outcome) ==
  LET done == [InitLocals EXCEPT !.gotToken = l.gotToken]
  IN IF outcome \in {"success", "error"}
       THEN [done EXCEPT !.response = outcome, !.err = "nil",
                         !.ret = IF outcome = "success" THEN "success" ELSE "error_status"]
       ELSE [done EXCEPT !.err = outcome, !.ret = "error"]

\* ------------------------------------------------------ identity endpoint
\* the access_token strings a 200 response may carry for client c: a string
\* parseTokenExpiry rejects (no JWT, or no numeric "exp"), or a JWT with an "exp"
ResponseTokens(c) ==
  {AccessTokenFor(c, NoExp)} \cup {AccessTokenFor(c, e) : e \in ExpClaims}

\* the refresh_token strings a 200 response may carry for client c
ResponseRefreshTokens(c) == {EmptyRefresh, RefreshTokenFor(c)}

\* the token entries the identity endpoint may send for client c
ClientTokenEntries(c) ==
  {[client_id |-> c, access_token |-> a, refresh_token |-> r] :
     a \in ResponseTokens(c), r \in ResponseRefreshTokens(c)}

\* those that carry a refresh token
FullEntries(c) == {m \in ClientTokenEntries(c) : m.refresh_token # EmptyRefresh}

OtherEntry ==
  [client_id |-> OtherClientID,
   access_token |-> AccessTokenFor(OtherClientID, MaxTime + RefreshThreshold),
   refresh_token |-> RefreshTokenFor(OtherClientID)]

\* what client.Do and the JSON decoder can yield for a login request
LoginResponses ==
  {[kind |-> k, clients |-> << >>] : k \in {"transport", "status", "malformed"}}
  \cup {[kind |-> "ok", clients |-> cs] :
          cs \in {<< >>, <<OtherEntry>>}
                 \cup {<<m>> : m \in ClientTokenEntries(authClientID)}
                 \cup {<<OtherEntry, m>> : m \in FullEntries(authClientID)}
                 \cup {<<m, OtherEntry>> : m \in FullEntries(authClientID)}}

\* what client.Do and the JSON decoder can yield for a refresh request
RefreshResponses ==
  {[kind |-> k, body |-> OtherEntry] : k \in {"transport", "status", "malformed"}}
  \cup {[kind |-> "ok", body |-> b] :
          b \in {OtherEntry} \cup ClientTokenEntries(authClientID)}

\* FoundIndex taking the first entry of the response whatever its client_id
FoundIndexFirst(clients) == IF Len(clients) = 0 THEN 0 ELSE 1

\* Login, lines 165-171: the first entry of the response for authClientID
FoundIndex(clients) ==
  LET hits == {i \in 1..Len(clients) : clients[i].client_id = authClientID}
  IN IF hits = {} THEN 0 ELSE CHOOSE i \in hits : \A j \in hits : i <= j

\* Login, lines 150-175: the error the response leads to ("nil": none)
LoginError(r) ==
  CASE r.kind = "transport" -> "transport"
    [] r.kind = "status" -> "status"
    [] r.kind = "malformed" -> "malformed"
    [] OTHER -> IF FoundIndex(r.clients) = 0 THEN "no_client" ELSE "nil"

\* RefreshError without the client_id comparison of lines 230-232
RefreshErrorAnyClient(r) ==
  CASE r.kind = "transport" -> "transport"
    [] r.kind = "status" -> "status"
    [] r.kind = "malformed" -> "malformed"
    [] OTHER -> "nil"

\* RefreshToken, lines 215-232: the error the response leads to ("nil": none)
RefreshError(r) ==
  CASE r.kind = "transport" -> "transport"
    [] r.kind = "status" -> "status"
    [] r.kind = "malformed" -> "malformed"
    [] OTHER -> IF r.body.client_id # authClientID THEN "client_mismatch" ELSE "nil"

\* ------------------------------------------------------------------ main
\* auth.init(): read the environment; log.Fatal on a missing or invalid value
AuthInit ==
  /\ Alive
  /\ pc["main"] = "init"
  /\ IF ConfigValid(env)
       THEN /\ authClientID' = Atoi(env.clientID).v
            /\ pc' = [pc EXCEPT !["main"] = "newauth"]
            /\ exitCause' = exitCause
       ELSE /\ authClientID' = Atoi(env.clientID).v
            /\ pc' = EndedPc
            /\ exitCause' = "config"
  /\ UNCHANGED <<env, testMode, loc, authVars, authMu, refresherVars, connVars, now>>

\* NewAuthHandler, lines 92-97: build the handler (with its ticker) and call Login
NewAuthHandler ==
  /\ Alive
  /\ pc["main"] = "newauth"
  /\ tickerRunning' = TRUE
  /\ pc' = [pc EXCEPT !["main"] = "login"]
  /\ loc' = [loc EXCEPT !["main"].nLogin = 1]
  /\ UNCHANGED <<cfgVars, authVars, authMu, tickPending, stopChanClosed, stopCalls,
                 connVars, now, exitCause>>

\* main, lines 181-184: TEST_MODE
MainTestMode ==
  /\ Alive
  /\ pc["main"] = "started"
  /\ testMode' = env.testMode
  /\ pc' = [pc EXCEPT !["main"] = "connect"]
  /\ UNCHANGED <<env, authClientID, loc, authVars, authMu, refresherVars, connVars,
                 now, exitCause>>

\* MainConnect with a failed initial connect ending the process
MainConnectFatal ==
  /\ Alive
  /\ pc["main"] = "connect"
  /\ \E ok \in BOOLEAN :
       IF ok
         THEN /\ nextHandle' = nextHandle + 1
              /\ mainConn' = nextHandle + 1
              /\ pc' = [pc EXCEPT !["main"] = "listen"]
              /\ loc' = loc
              /\ exitCause' = exitCause
         ELSE /\ pc' = EndedPc
              /\ loc' = EndedLoc
              /\ exitCause' = "connect"
              /\ UNCHANGED <<nextHandle, mainConn>>
  /\ UNCHANGED <<cfgVars, authVars, authMu, refresherVars, conn, client, connMu,
                 closed, now>>

\* main, lines 188-199: the initial connect, retried until it succeeds
MainConnect ==
  /\ Alive
  /\ pc["main"] = "connect"
  /\ \E ok \in BOOLEAN :
       IF ok
         THEN /\ nextHandle' = nextHandle + 1
              /\ mainConn' = nextHandle + 1
              /\ pc' = [pc EXCEPT !["main"] = "listen"]
              /\ loc' = loc
         ELSE /\ loc["main"].nReconnect < MaxConnectFails
              /\ loc' = [loc EXCEPT !["main"].nReconnect = @ + 1]
              /\ UNCHANGED <<nextHandle, mainConn, pc>>
  /\ UNCHANGED <<cfgVars, authVars, authMu, refresherVars, conn, client, connMu,
                 closed, now, exitCause>>

\* main, lines 203-227: listen and build the server around the handle
MainListen ==
  /\ Alive
  /\ pc["main"] = "listen"
  /\ \E ok \in BOOLEAN :
       IF ok
         THEN /\ conn' = mainConn
              /\ client' = mainConn
              /\ pc' = [pc EXCEPT !["main"] = "serve"]
              /\ UNCHANGED <<exitCause, loc>>
         ELSE /\ pc' = EndedPc
              /\ loc' = EndedLoc
              /\ exitCause' = "listen"
              /\ UNCHANGED <<conn, client>>
  /\ UNCHANGED <<cfgVars, authVars, authMu, refresherVars, connMu, mainConn,
                 closed, nextHandle, now>>

\* grpc ClientConn.Close: a second Close changes nothing
Close(handle, closedSet) == closedSet \cup {handle}

\* no ObserveData call is in progress
Quiet == \A h \in Handlers : pc[h] \in {"off", "returned"}

\* main, lines 229-231 and the deferred conn.Close() of line 200: Serve returns an
\* error (log.Fatalf, no deferred call runs) or nil (main returns, the deferred
\* call closes the handle the local variable conn held at line 200)
MainServeReturns ==
  /\ Alive
  /\ pc["main"] = "serve"
  /\ Quiet
  /\ pc' = EndedPc
  /\ loc' = EndedLoc
  /\ \E failed \in BOOLEAN :
       IF failed
         THEN /\ exitCause' = "serve"
              /\ closed' = closed
         ELSE /\ exitCause' = "shutdown"
              /\ closed' = Close(mainConn, closed)
  /\ UNCHANGED <<cfgVars, authVars, authMu, refresherVars, conn, client, connMu,
                 mainConn, nextHandle, now>>

\* LoginReturns with every caller treating a failed Login as main does at startup
LoginReturnsFatal(t, e, l) ==
  IF e # "nil"
    THEN /\ pc' = EndedPc
         /\ loc' = EndedLoc
         /\ exitCause' = "login"
    ELSE /\ exitCause' = exitCause
         /\ IF t = "main"
              THEN /\ pc' = [pc EXCEPT !["main"] = "started", !["bg"] = "select"]
                   /\ loc' = [loc EXCEPT ![t] = [l EXCEPT !.err = e]]
              ELSE /\ pc' = [pc EXCEPT ![t] = IF t = "bg" THEN "select" ELSE "gt_token"]
                   /\ loc' = [loc EXCEPT ![t] = IF t = "bg" THEN InitLocals
                                                              ELSE [l EXCEPT !.err = e]]

\* LoginReturns with ObserveData going on although GetToken returned Login's error
LoginReturnsUnchecked(t, e, l) ==
  CASE t = "main" ->
         IF e = "nil"
           THEN /\ pc' = [pc EXCEPT !["main"] = "started", !["bg"] = "select"]
                /\ loc' = [loc EXCEPT ![t] = [l EXCEPT !.err = e]]
                /\ exitCause' = exitCause
           ELSE /\ pc' = EndedPc
                /\ loc' = EndedLoc
                /\ exitCause' = "login"
    [] t = "bg" ->
         /\ pc' = [pc EXCEPT ![t] = "select"]
         /\ loc' = [loc EXCEPT ![t] = InitLocals]
         /\ exitCause' = exitCause
    [] OTHER ->
         /\ pc' = [pc EXCEPT ![t] = "gt_token"]
         /\ loc' = [loc EXCEPT ![t] = [l EXCEPT !.err = e]]
         /\ exitCause' = exitCause

\* ----------------------------------------------------------------- Login
\* where Login's caller goes on with Login's result e; l: the caller's locals
LoginReturns(t, e, l) ==
  CASE t = "main" ->
         \* NewAuthHandler, lines 97-103; main, lines 176-179
         IF e = "nil"
           THEN /\ pc' = [pc EXCEPT !["main"] = "started", !["bg"] = "select"]
                /\ loc' = [loc EXCEPT ![t] = [l EXCEPT !.err = e]]
                /\ exitCause' = exitCause
           ELSE /\ pc' = EndedPc
                /\ loc' = EndedLoc
                /\ exitCause' = "login"
    [] t = "bg" ->
         \* startRefresher, lines 120-122: logged, back to the select
         /\ pc' = [pc EXCEPT ![t] = "select"]
         /\ loc' = [loc EXCEPT ![t] = InitLocals]
         /\ exitCause' = exitCause
    [] OTHER ->
         \* GetToken, lines 259-261; ObserveData, lines 121-124
         /\ pc' = [pc EXCEPT ![t] = IF e = "nil" THEN "gt_token" ELSE "returned"]
         /\ loc' = [loc EXCEPT ![t] = IF e = "nil" THEN [l EXCEPT !.err = e]
                                                     ELSE Returned(l, e)]
         /\ exitCause' = exitCause

\* Login, lines 133-175: the request and the decoding of its response
\* the positions where a task holds a decoded response it has not stored yet
StorePcs == {"login_store", "refresh_store"}

\* the handler goroutines whose renewals are followed for the order of issue
Renewers == Handlers \ Callers

\* the followed tasks that hold a response when t's request is answered: the
\* endpoint issued theirs before t's
Holders(t) == {x \in Renewers \ {t} : pc[x] \in StorePcs}

\* the locals after t stored the response l.found (l: t's locals after the
\* store): a task whose response was issued before the stored one now holds
\* an older credential than the stored one
StoredBy(t, l) ==
  [x \in Tasks |->
     IF x = t
       THEN [l EXCEPT !.found = InitLocals.found, !.issuedAfter = {}, !.overtaken = FALSE]
       ELSE [loc[x] EXCEPT !.issuedAfter = @ \ {t},
                           !.overtaken = @ \/ x \in loc[t].issuedAfter]]

LoginRequest(t) ==
  /\ Alive
  /\ pc[t] = "login"
  /\ \E r \in LoginResponses :
       LET e == LoginError(r)
           l == loc[t]
       IN IF e # "nil"
            THEN LoginReturns(t, e, l)
            ELSE LET foundClient == r.clients[FoundIndex(r.clients)]
                 IN /\ pc' = [pc EXCEPT ![t] = "login_store"]
                    /\ loc' = [loc EXCEPT ![t] =
                                 [l EXCEPT !.err = "nil",
                                           !.found = [at |-> foundClient.access_token,
                                                      rt |-> foundClient.refresh_token],
                                           !.issuedAfter = Holders(t)]]
                    /\ exitCause' = exitCause
  /\ UNCHANGED <<cfgVars, authVars, authMu, refresherVars, connVars, now>>

\* Login, lines 177-181: take the lock, store the two tokens
LoginStore(t) ==
  /\ Alive
  /\ pc[t] = "login_store"
  /\ authMu = NoTask
  /\ authMu' = t
  /\ accessToken' = loc[t].found.at
  /\ refreshToken' = loc[t].found.rt
  /\ pc' = [pc EXCEPT ![t] = "login_parse"]
  /\ loc' = StoredBy(t, [loc[t] EXCEPT !.wrote =
                            @ \/ accessToken' # accessToken \/ refreshToken' # refreshToken])
  /\ UNCHANGED <<cfgVars, expiry, refresherVars, connVars, now, exitCause>>

\* LoginParse returning on a parse error before it assigns a.expiry
LoginParseKeepsExpiry(t) ==
  /\ Alive
  /\ pc[t] = "login_parse"
  /\ authMu = t
  /\ LET parsed == parseTokenExpiry(accessToken)
     IN /\ expiry' = IF parsed.err THEN expiry ELSE parsed.t
        /\ LoginReturns(t, IF parsed.err THEN "token" ELSE "nil",
                        [loc[t] EXCEPT !.wrote = @ \/ expiry' # expiry])
  /\ authMu' = NoTask
  /\ UNCHANGED <<cfgVars, accessToken, refreshToken, refresherVars, connVars, now>>

\* Login, lines 182-189: store the parsed expiry, release the lock, return
LoginParse(t) ==
  /\ Alive
  /\ pc[t] = "login_parse"
  /\ authMu = t
  /\ LET parsed == parseTokenExpiry(accessToken)
     IN /\ expiry' = parsed.t
        /\ LoginReturns(t, IF parsed.err THEN "token" ELSE "nil",
                        [loc[t] EXCEPT !.wrote = @ \/ expiry' # expiry])
  /\ authMu' = NoTask
  /\ UNCHANGED <<cfgVars, accessToken, refreshToken, refresherVars, connVars, now>>

\* ---------------------------------------------------------- RefreshToken
\* where RefreshToken's caller goes on with its result e; l: the caller's locals
RefreshReturns(t, e, l) ==
  IF e = "nil"
    THEN \* startRefresher, line 118; GetToken, line 257
         /\ pc' = [pc EXCEPT ![t] = IF t = "bg" THEN "select" ELSE "gt_token"]
         /\ loc' = [loc EXCEPT ![t] = IF t = "bg" THEN InitLocals ELSE [l EXCEPT !.err = e]]
    ELSE \* startRefresher, lines 119-120; GetToken, lines 258-259: fall back to Login
         /\ pc' = [pc EXCEPT ![t] = "login"]
         /\ loc' = [loc EXCEPT ![t] = [l EXCEPT !.err = e, !.refreshFailed = TRUE,
                                                 !.nLogin = @ + 1]]

\* RefreshToken, lines 193-199: copy the refresh token out under the lock
RefreshRead(t) ==
  /\ Alive
  /\ pc[t] = "refresh"
  /\ authMu = NoTask
  /\ LET l == loc[t]
     IN IF refreshToken = EmptyRefresh
          THEN RefreshReturns(t, "no_refresh_token", l)
          ELSE /\ pc' = [pc EXCEPT ![t] = "refresh_request"]
               /\ loc' = [loc EXCEPT ![t] = l]
  /\ UNCHANGED <<cfgVars, authVars, authMu, refresherVars, connVars, now, exitCause>>

\* RefreshToken, lines 201-232: the request and the decoding of its response
RefreshRequest(t) ==
  /\ Alive
  /\ pc[t] = "refresh_request"
  /\ \E r \in RefreshResponses :
       LET e == RefreshError(r)
           l == loc[t]
       IN IF e # "nil"
            THEN RefreshReturns(t, e, l)
            ELSE /\ pc' = [pc EXCEPT ![t] = "refresh_store"]
                 /\ loc' = [loc EXCEPT ![t] =
                              [l EXCEPT !.found = [at |-> r.body.access_token,
                                                   rt |-> r.body.refresh_token],
                                        !.issuedAfter = Holders(t)]]
  /\ UNCHANGED <<cfgVars, authVars, authMu, refresherVars, connVars, now, exitCause>>

\* RefreshToken, lines 234-238: take the lock, store the two tokens
RefreshStore(t) ==
  /\ Alive
  /\ pc[t] = "refresh_store"
  /\ authMu = NoTask
  /\ authMu' = t
  /\ accessToken' = loc[t].found.at
  /\ refreshToken' = loc[t].found.rt
  /\ pc' = [pc EXCEPT ![t] = "refresh_parse"]
  /\ loc' = StoredBy(t, [loc[t] EXCEPT !.wrote =
                            @ \/ accessToken' # accessToken \/ refreshToken' # refreshToken])
  /\ UNCHANGED <<cfgVars, expiry, refresherVars, connVars, now, exitCause>>

\* RefreshToken, lines 239-246: store the parsed expiry, release the lock, return
RefreshParse(t) ==
  /\ Alive
  /\ pc[t] = "refresh_parse"
  /\ authMu = t
  /\ LET parsed == parseTokenExpiry(accessToken)
     IN /\ expiry' = parsed.t
        /\ RefreshReturns(t, IF parsed.err THEN "token" ELSE "nil",
                          [loc[t] EXCEPT !.wrote = @ \/ expiry' # expiry])
  /\ authMu' = NoTask
  /\ UNCHANGED <<cfgVars, accessToken, refreshToken, refresherVars, connVars,
                 now, exitCause>>

\* -------------------------------------------------------------- GetToken
\* time.Now().UTC() against expiryUTC
ClockAgainst(e) ==
  CASE now < e -> "before"
    [] now = e -> "at"
    [] OTHER -> "after"

\* GetTokenCheck renewing also when the clock is exactly at the expiry
GetTokenCheckNotBefore(h) ==
  /\ Alive
  /\ pc[h] = "get_token"
  /\ authMu = NoTask
  /\ LET expiryUTC == expiry
     IN IF ClockAgainst(expiryUTC) \in {"at", "after"}
          THEN /\ pc' = [pc EXCEPT ![h] = "refresh"]
               /\ loc' = [loc EXCEPT ![h].gotToken = TRUE,
                                     ![h].atCheck = ClockAgainst(expiryUTC),
                                     ![h].nRefresh = @ + 1]
          ELSE /\ pc' = [pc EXCEPT ![h] = "gt_token"]
               /\ loc' = [loc EXCEPT ![h].gotToken = TRUE,
                                     ![h].atCheck = ClockAgainst(expiryUTC)]
  /\ UNCHANGED <<cfgVars, authVars, authMu, refresherVars, connVars, now, exitCause>>

\* GetToken, lines 250-257: copy the expiry out under the lock and compare it
\* with the clock; renew only when the clock is after the expiry
GetTokenCheck(h) ==
  /\ Alive
  /\ pc[h] = "get_token"
  /\ authMu = NoTask
  /\ LET expiryUTC == expiry
     IN IF ClockAgainst(expiryUTC) = "after"
          THEN /\ pc' = [pc EXCEPT ![h] = "refresh"]
               /\ loc' = [loc EXCEPT ![h].gotToken = TRUE,
                                     ![h].atCheck = ClockAgainst(expiryUTC),
                                     ![h].nRefresh = @ + 1]
          ELSE /\ pc' = [pc EXCEPT ![h] = "gt_token"]
               /\ loc' = [loc EXCEPT ![h].gotToken = TRUE,
                                     ![h].atCheck = ClockAgainst(expiryUTC)]
  /\ UNCHANGED <<cfgVars, authVars, authMu, refresherVars, connVars, now, exitCause>>

\* what kind of string an access token is
KindOf(a) ==
  CASE a = EmptyToken -> "empty"
    [] parseTokenExpiry(a).err -> "unparsable"
    [] OTHER -> "valid"

\* GetTokenReturn with ObserveData never taking the test-mode return
GetTokenReturnNoStub(h) ==
  /\ Alive
  /\ pc[h] = "gt_token"
  /\ authMu = NoTask
  /\ pc' = [pc EXCEPT ![h] = "read_client"]
  /\ \E tok \in CallerTokens :
       loc' = [loc EXCEPT ![h] = [InitLocals EXCEPT !.gotToken = TRUE,
                                                    !.reqToken = tok,
                                                    !.jwtToken = accessToken,
                                                    !.sentToken = accessToken]]
  /\ UNCHANGED <<cfgVars, authVars, authMu, refresherVars, connVars, now, exitCause>>

\* GetTokenReturn with the forwarded request keeping a token the caller supplied
GetTokenReturnKeepsCallerToken(h) ==
  /\ Alive
  /\ pc[h] = "gt_token"
  /\ authMu = NoTask
  /\ IF testMode
       THEN /\ pc' = [pc EXCEPT ![h] = "returned"]
            /\ loc' = [loc EXCEPT ![h] = Returned(loc[h], "success")]
       ELSE /\ pc' = [pc EXCEPT ![h] = "read_client"]
            /\ \E tok \in CallerTokens :
                 loc' = [loc EXCEPT ![h] =
                           [InitLocals EXCEPT !.gotToken = TRUE,
                                              !.reqToken = tok,
                                              !.jwtToken = accessToken,
                                              !.sentToken =
                                                IF tok # EmptyToken THEN tok
                                                                    ELSE accessToken]]
  /\ UNCHANGED <<cfgVars, authVars, authMu, refresherVars, connVars, now, exitCause>>

\* GetToken, lines 265-268, and ObserveData, lines 120-138: copy the token out
\* under the lock and return it; in test mode ObserveData returns the stub here.
\* The fields of req are read for the first time when forwardedReq is built
\* (lines 132-138), so the Token field the caller supplied is drawn here.
GetTokenReturn(h) ==
  /\ Alive
  /\ pc[h] = "gt_token"
  /\ authMu = NoTask
  /\ IF testMode
       THEN /\ pc' = [pc EXCEPT ![h] = "returned"]
            /\ loc' = [loc EXCEPT ![h] = Returned(loc[h], "success")]
       ELSE /\ pc' = [pc EXCEPT ![h] = "read_client"]
            /\ \E tok \in CallerTokens :
                 loc' = [loc EXCEPT ![h] = [InitLocals EXCEPT !.gotToken = TRUE,
                                                              !.reqToken = tok,
                                                              !.jwtToken = accessToken,
                                                              !.sentToken = accessToken]]
  /\ UNCHANGED <<cfgVars, authVars, authMu, refresherVars, connVars, now, exitCause>>

\* ----------------------------------------------------------- ObserveData
\* the gRPC server hands a request to a handler goroutine
ObserveDataCall(h) ==
  /\ Alive
  /\ pc["main"] = "serve"
  /\ pc[h] \in {"off", "returned"}
  /\ pc' = [pc EXCEPT ![h] = "get_token"]
  /\ loc' = [loc EXCEPT ![h] = InitLocals]
  /\ UNCHANGED <<cfgVars, authVars, authMu, refresherVars, connVars, now, exitCause>>

\* what a send on a handle can come back with
SendOutcomes(handle) ==
  {"success", "error", "unavailable", "deadline"}
  \cup (IF handle \in closed THEN {"canceled"} ELSE {})

\* ObserveData, lines 140-144: read the client under the read lock, issue the send
ReadClient(h) ==
  /\ Alive
  /\ pc[h] = "read_client"
  /\ connMu = NoTask
  /\ loc' = [loc EXCEPT ![h].client = client, ![h].nSend = @ + 1]
  /\ pc' = [pc EXCEPT ![h] = "send"]
  /\ UNCHANGED <<cfgVars, authVars, authMu, refresherVars, connVars, now, exitCause>>

\* ObserveData, lines 144-147 and 162-171: the first send comes back
FirstSend(h) ==
  /\ Alive
  /\ pc[h] = "send"
  /\ \E o \in SendOutcomes(loc[h].client) :
       IF o = "unavailable"
         THEN /\ pc' = [pc EXCEPT ![h] = "reconnect"]
              /\ loc' = [loc EXCEPT ![h].err = o, ![h].firstErr = o]
         ELSE /\ pc' = [pc EXCEPT ![h] = "returned"]
              /\ loc' = [loc EXCEPT ![h] = Returned(loc[h], o)]
  /\ UNCHANGED <<cfgVars, authVars, authMu, refresherVars, connVars, now, exitCause>>

\* Reconnect without the recErr == nil test of line 149: the swap follows a
\* failed reconnectObserver too, with the nil handle it returned
ReconnectUnchecked(h) ==
  /\ Alive
  /\ pc[h] = "reconnect"
  /\ \E ok \in BOOLEAN :
       IF ok
         THEN /\ nextHandle < MaxHandles
              /\ nextHandle' = nextHandle + 1
              /\ loc' = [loc EXCEPT ![h].newConn = nextHandle + 1, ![h].nReconnect = @ + 1]
              /\ pc' = [pc EXCEPT ![h] = "swap"]
         ELSE /\ nextHandle' = nextHandle
              /\ loc' = [loc EXCEPT ![h].newConn = NoHandle, ![h].nReconnect = @ + 1]
              /\ pc' = [pc EXCEPT ![h] = "swap"]
  /\ UNCHANGED <<cfgVars, authVars, authMu, refresherVars, conn, client, connMu,
                 mainConn, closed, now, exitCause>>

\* ObserveData, lines 148-149 (reconnectObserver, lines 31-102): one lazy reconnect;
\* when it fails the error of the first send is returned (lines 162-165)
Reconnect(h) ==
  /\ Alive
  /\ pc[h] = "reconnect"
  /\ \E ok \in BOOLEAN :
       IF ok
         THEN /\ nextHandle < MaxHandles
              /\ nextHandle' = nextHandle + 1
              /\ loc' = [loc EXCEPT ![h].newConn = nextHandle + 1, ![h].nReconnect = @ + 1]
              /\ pc' = [pc EXCEPT ![h] = "swap"]
         ELSE /\ nextHandle' = nextHandle
              /\ loc' = [loc EXCEPT ![h] =
                           Returned([loc[h] EXCEPT !.nReconnect = @ + 1], loc[h].err)]
              /\ pc' = [pc EXCEPT ![h] = "returned"]
  /\ UNCHANGED <<cfgVars, authVars, authMu, refresherVars, conn, client, connMu,
                 mainConn, closed, now, exitCause>>

\* ObserveData, lines 150-152: take the write lock, replace s.conn
SwapConn(h) ==
  /\ Alive
  /\ pc[h] = "swap"
  /\ connMu = NoTask
  /\ connMu' = h
  /\ loc' = [loc EXCEPT ![h].oldConn = conn]
  /\ conn' = loc[h].newConn
  /\ pc' = [pc EXCEPT ![h] = "swap_client"]
  /\ UNCHANGED <<cfgVars, authVars, authMu, refresherVars, client, mainConn, closed,
                 nextHandle, now, exitCause>>

\* SwapClient without the s.mu.Unlock() of line 154 (the lock kept until the return)
SwapClientKeepsLock(h) ==
  /\ Alive
  /\ pc[h] = "swap_client"
  /\ connMu = h
  /\ client' = loc[h].newConn
  /\ connMu' = h
  /\ pc' = [pc EXCEPT ![h] = "close_old"]
  /\ UNCHANGED <<cfgVars, loc, authVars, authMu, refresherVars, conn, mainConn, closed,
                 nextHandle, now, exitCause>>

\* ObserveData, lines 153-154: replace s.client, release the write lock
SwapClient(h) ==
  /\ Alive
  /\ pc[h] = "swap_client"
  /\ connMu = h
  /\ client' = loc[h].newConn
  /\ connMu' = NoTask
  /\ pc' = [pc EXCEPT ![h] = "close_old"]
  /\ UNCHANGED <<cfgVars, loc, authVars, authMu, refresherVars, conn, mainConn, closed,
                 nextHandle, now, exitCause>>

\* CloseOld without the oldConn.Close() of line 156
CloseOldLeavesOpen(h) ==
  /\ Alive
  /\ pc[h] = "close_old"
  /\ closed' = closed
  /\ loc' = [loc EXCEPT ![h].nSend = @ + 1]
  /\ pc' = [pc EXCEPT ![h] = "retry"]
  /\ UNCHANGED <<cfgVars, authVars, authMu, refresherVars, conn, client, connMu,
                 mainConn, nextHandle, now, exitCause>>

\* ObserveData, lines 155-159: close the replaced handle, issue the retried send
CloseOld(h) ==
  /\ Alive
  /\ pc[h] = "close_old"
  /\ closed' = IF loc[h].oldConn # NoHandle THEN Close(loc[h].oldConn, closed) ELSE closed
  /\ loc' = [loc EXCEPT ![h].nSend = @ + 1]
  /\ pc' = [pc EXCEPT ![h] = "retry"]
  /\ UNCHANGED <<cfgVars, authVars, authMu, refresherVars, conn, client, connMu,
                 mainConn, nextHandle, now, exitCause>>

\* RetrySend going back to the reconnect when the retried send is unavailable too
RetrySendAgain(h) ==
  /\ Alive
  /\ pc[h] = "retry"
  /\ \E o \in SendOutcomes(loc[h].newConn) :
       IF o = "unavailable"
         THEN /\ pc' = [pc EXCEPT ![h] = "reconnect"]
              /\ loc' = [loc EXCEPT ![h].err = o]
         ELSE /\ pc' = [pc EXCEPT ![h] = "returned"]
              /\ loc' = [loc EXCEPT ![h] = Returned(loc[h], o)]
  /\ UNCHANGED <<cfgVars, authVars, authMu, refresherVars, connVars, now, exitCause>>

\* ObserveData, lines 159 and 162-171: the retried send comes back
RetrySend(h) ==
  /\ Alive
  /\ pc[h] = "retry"
  /\ \E o \in SendOutcomes(loc[h].newConn) :
       /\ pc' = [pc EXCEPT ![h] = "returned"]
       /\ loc' = [loc EXCEPT ![h] = Returned(loc[h], o)]
  /\ UNCHANGED <<cfgVars, authVars, authMu, refresherVars, connVars, now, exitCause>>

\* -------------------------------------------------------- startRefresher
\* NearExpiry renewing also when exactly the threshold remains
NearExpiryInclusive(e) == e - now <= RefreshThreshold

\* time.Until(expiryUTC) < 5*time.Minute
NearExpiry(e) == e - now < RefreshThreshold

\* RefresherSelect without the stopChan case of lines 125-127
RefresherSelectTicksOnly ==
  /\ Alive
  /\ pc["bg"] = "select"
  /\ tickPending
  /\ tickPending' = FALSE
  /\ pc' = [pc EXCEPT !["bg"] = "tick"]
  /\ loc' = loc
  /\ UNCHANGED <<cfgVars, authVars, authMu, tickerRunning, stopChanClosed, stopCalls,
                 connVars, now, exitCause>>

\* startRefresher, lines 109-110 and 125-127: the select; with both channels
\* ready either case may be taken
RefresherSelect ==
  /\ Alive
  /\ pc["bg"] = "select"
  /\ \/ /\ tickPending
        /\ tickPending' = FALSE
        /\ pc' = [pc EXCEPT !["bg"] = "tick"]
     \/ /\ stopChanClosed
        /\ tickPending' = tickPending
        /\ pc' = [pc EXCEPT !["bg"] = "stopped"]
  /\ loc' = loc
  /\ UNCHANGED <<cfgVars, authVars, authMu, tickerRunning, stopChanClosed, stopCalls,
                 connVars, now, exitCause>>

\* startRefresher, lines 111-118: copy the expiry out under the lock; renew when
\* less than the threshold remains
RefresherCheck ==
  /\ Alive
  /\ pc["bg"] = "tick"
  /\ authMu = NoTask
  /\ LET expiryUTC == expiry
     IN IF NearExpiry(expiryUTC)
          THEN /\ pc' = [pc EXCEPT !["bg"] = "refresh"]
               /\ loc' = [loc EXCEPT !["bg"].atCheck = "near", !["bg"].nRefresh = @ + 1]
          ELSE /\ pc' = [pc EXCEPT !["bg"] = "select"]
               /\ loc' = [loc EXCEPT !["bg"] = InitLocals]
  /\ UNCHANGED <<cfgVars, authVars, authMu, refresherVars, connVars, now, exitCause>>

\* StopRefresher without the a.ticker.Stop() of line 274
StopRefresherKeepsTicker ==
  /\ Alive
  /\ pc["bg"] # "off"
  /\ stopCalls < MaxStopCalls
  /\ stopCalls' = stopCalls + 1
  /\ IF stopChanClosed
       THEN /\ exitCause' = "panic"
            /\ pc' = EndedPc
            /\ loc' = EndedLoc
            /\ UNCHANGED <<stopChanClosed, tickerRunning>>
       ELSE /\ stopChanClosed' = TRUE
            /\ tickerRunning' = tickerRunning
            /\ UNCHANGED <<exitCause, pc, loc>>
  /\ UNCHANGED <<cfgVars, authVars, authMu, tickPending, connVars, now>>

\* StopRefresher also dropping the stored credential
StopRefresherClears ==
  /\ Alive
  /\ pc["bg"] # "off"
  /\ stopCalls < MaxStopCalls
  /\ stopCalls' = stopCalls + 1
  /\ IF stopChanClosed
       THEN /\ exitCause' = "panic"
            /\ pc' = EndedPc
            /\ loc' = EndedLoc
            /\ UNCHANGED <<stopChanClosed, tickerRunning, authVars>>
       ELSE /\ stopChanClosed' = TRUE
            /\ tickerRunning' = FALSE
            /\ accessToken' = EmptyToken
            /\ refreshToken' = EmptyRefresh
            /\ expiry' = ZeroTime
            /\ UNCHANGED <<exitCause, pc, loc>>
  /\ UNCHANGED <<cfgVars, authMu, tickPending, connVars, now>>

\* StopRefresher, lines 272-275: close(a.stopChan) panics on a closed channel
\* (the unrecovered panic ends the process); otherwise the ticker is stopped
StopRefresher ==
  /\ Alive
  /\ pc["bg"] # "off"
  /\ stopCalls < MaxStopCalls
  /\ stopCalls' = stopCalls + 1
  /\ IF stopChanClosed
       THEN /\ exitCause' = "panic"
            /\ pc' = EndedPc
            /\ loc' = EndedLoc
            /\ UNCHANGED <<stopChanClosed, tickerRunning>>
       ELSE /\ stopChanClosed' = TRUE
            /\ tickerRunning' = FALSE
            /\ UNCHANGED <<exitCause, pc, loc>>
  /\ UNCHANGED <<cfgVars, authVars, authMu, tickPending, connVars, now>>

\* ------------------------------------------------------------------ time
\* a minute passes; a running ticker puts a tick in its channel (capacity 1)
Tick ==
  /\ Alive
  /\ now < MaxTime
  /\ now' = now + 1
  /\ tickPending' = (tickPending \/ tickerRunning)
  /\ UNCHANGED <<cfgVars, pc, loc, authVars, authMu, tickerRunning, stopChanClosed,
                 stopCalls, connVars, exitCause>>

Next ==
  \/ AuthInit
  \/ NewAuthHandler
  \/ MainTestMode
  \/ MainConnect
  \/ MainListen
  \/ MainServeReturns
  \/ \E t \in Callers \cup {"main", "bg"} : LoginRequest(t)
  \/ \E t \in Callers \cup {"main", "bg"} : LoginStore(t)
  \/ \E t \in Callers \cup {"main", "bg"} : LoginParse(t)
  \/ \E t \in Callers \cup {"bg"} : RefreshRead(t)
  \/ \E t \in Callers \cup {"bg"} : RefreshRequest(t)
  \/ \E t \in Callers \cup {"bg"} : RefreshStore(t)
  \/ \E t \in Callers \cup {"bg"} : RefreshParse(t)
  \/ \E h \in Callers : ObserveDataCall(h)
  \/ \E h \in Callers : GetTokenCheck(h)
  \/ \E h \in Callers : GetTokenReturn(h)
  \/ \E h \in Callers : ReadClient(h)
  \/ \E h \in Callers : FirstSend(h)
  \/ \E h \in Callers : Reconnect(h)
  \/ \E h \in Callers : SwapConn(h)
  \/ \E h \in Callers : SwapClient(h)
  \/ \E h \in Callers : CloseOld(h)
  \/ \E h \in Callers : RetrySend(h)
  \/ RefresherSelect
  \/ RefresherCheck
  \/ StopRefresher
  \/ Tick

Spec == Init /\ [][Next]_vars

\* ------------------------------------------------------------- scheduling
\* a step of the startRefresher goroutine
BgStep ==
  \/ RefresherSelect
  \/ RefresherCheck
  \/ RefreshRead("bg") \/ RefreshRequest("bg") \/ RefreshStore("bg") \/ RefreshParse("bg")
  \/ LoginRequest("bg") \/ LoginStore("bg") \/ LoginParse("bg")

\* the process without inbound requests: startup, the background loop, the
\* clock and StopRefresher
NextBg ==
  \/ AuthInit
  \/ NewAuthHandler
  \/ MainTestMode
  \/ MainConnect
  \/ MainListen
  \/ MainServeReturns
  \/ LoginRequest("main") \/ LoginStore("main") \/ LoginParse("main")
  \/ BgStep
  \/ StopRefresher
  \/ Tick

\* The goroutine of startRefresher is scheduled and its identity-endpoint
\* calls come back (the http.Client of line 93 has no timeout: that they come
\* back is an assumption on the endpoint).
Fairness == WF_vars(BgStep)

FairSpec == Init /\ [][NextBg]_vars /\ Fairness

\* ------------------------------------------- the server with two handlers
\* The process once main has reached Serve (line 229): the configuration was
\* accepted, the initial Login stored a credential that outlives the horizon,
\* the first reconnectObserver produced handle 1, no request has arrived yet.
InitServing ==
  /\ env = [clientID |-> "2", email |-> "set", password |-> "set", testMode |-> FALSE]
  /\ authClientID = 2
  /\ testMode = FALSE
  /\ pc = [t \in Tasks |-> CASE t = "main" -> "serve"
                            [] t = "bg" -> "select"
                            [] OTHER -> "off"]
  /\ loc = [t \in Tasks |-> IF t = "main"
                              THEN [InitLocals EXCEPT !.nLogin = 1, !.wrote = TRUE]
                              ELSE InitLocals]
  /\ accessToken = AccessTokenFor(2, MaxTime + RefreshThreshold)
  /\ refreshToken = RefreshTokenFor(2)
  /\ expiry = MaxTime + RefreshThreshold
  /\ authMu = NoTask
  /\ tickPending = FALSE
  /\ tickerRunning = TRUE
  /\ stopChanClosed = FALSE
  /\ stopCalls = 0
  /\ conn = 1
  /\ client = 1
  /\ connMu = NoTask
  /\ mainConn = 1
  /\ closed = {}
  /\ nextHandle = 1
  /\ now = 0
  /\ exitCause = "none"

\* two handler goroutines serving ObserveData calls concurrently
NextConn ==
  \/ \E h \in Handlers : ObserveDataCall(h)
  \/ \E h \in Handlers : GetTokenCheck(h)
  \/ \E h \in Handlers : GetTokenReturn(h)
  \/ \E h \in Handlers : ReadClient(h)
  \/ \E h \in Handlers : FirstSend(h)
  \/ \E h \in Handlers : Reconnect(h)
  \/ \E h \in Handlers : SwapConn(h)
  \/ \E h \in Handlers : SwapClient(h)
  \/ \E h \in Handlers : CloseOld(h)
  \/ \E h \in Handlers : RetrySend(h)
  \/ MainServeReturns

SpecConn == InitServing /\ [][NextConn]_vars

\* ================================================================= claims
\* positions of a handler inside GetToken's call of RefreshToken / of Login
RefreshPcs == {"refresh", "refresh_request", "refresh_store", "refresh_parse"}
LoginPcs == {"login", "login_store", "login_parse"}
\* positions of a handler between GetToken's return and ObserveData's return
SendPcs == {"read_client", "send", "reconnect", "swap", "swap_client", "close_old",
            "retry"}
\* the errors Login can return
LoginErrors == {"transport", "status", "malformed", "no_client", "token"}
\* the errors RefreshToken can return before it touches the store
RefreshRejections ==
  {"no_refresh_token", "transport", "status", "malformed", "client_mismatch"}

\* ---- C1
\* C1 as stated: with the test-mode switch on, every ObserveData call returns a
\* success response and never invokes GetToken (nor opens or uses a connection).
CE_C1 ==
  testMode =>
    \A h \in Callers :
      /\ ~loc[h].gotToken
      /\ loc[h].nSend = 0 /\ loc[h].nReconnect = 0
      /\ pc[h] = "returned" => loc[h].ret = "success"

\* C1 as the code has it: with the test-mode switch on, an ObserveData call
\* first invokes GetToken; it issues no send and no reconnect; it returns
\* GetToken's error when GetToken failed and a success response otherwise.
Thm_C1 ==
  testMode =>
    \A h \in Callers :
      /\ pc[h] \notin SendPcs
      /\ loc[h].nSend = 0 /\ loc[h].nReconnect = 0
      /\ pc[h] = "returned" =>
           /\ loc[h].gotToken
           /\ \/ loc[h].ret = "success" /\ loc[h].err = "nil"
              \/ loc[h].ret = "error" /\ loc[h].err \in LoginErrors

\* a test-mode call that has returned its stub response after GetToken
Wit_C1 ==
  /\ testMode
  /\ \E h \in Callers :
       pc[h] = "returned" /\ loc[h].ret = "success" /\ loc[h].gotToken

\* ---- C2
\* C2: whenever GetToken returns an error, the stored credential (access token,
\* refresh token, expiry) is what it was before the failing attempts: no write
\* of the call's RefreshToken or Login changed it.
CE_C2 ==
  [][\A h \in Callers :
       (pc[h] \in {"login", "login_parse"} /\ pc'[h] = "returned"
          /\ loc'[h].ret = "error")
         => (~loc[h].wrote /\ authVars' = authVars)]_vars

\* ---- C3
\* C3: whenever no Login or RefreshToken holds the lock, the stored expiry is
\* what parseTokenExpiry yields for the stored access token (the zero time for
\* a token it rejects): token and expiry are replaced together.
Thm_C3 == authMu = NoTask => expiry = parseTokenExpiry(accessToken).t

\* a GetToken whose RefreshToken failed and whose Login then replaced the credential
Wit_C3 ==
  /\ authMu = NoTask
  /\ KindOf(accessToken) = "valid"
  /\ \E h \in Callers :
       pc[h] = "gt_token" /\ loc[h].refreshFailed /\ loc[h].nLogin = 1 /\ loc[h].wrote

\* ---- C4
\* C4: the access token GetToken returns without an error (the one ObserveData
\* then forwards) is non-empty and parsable.
CE_C4 ==
  \A h \in Callers : pc[h] \in SendPcs => KindOf(loc[h].jwtToken) = "valid"

\* ---- C5
\* C5 as stated: GetToken called strictly before the expiry makes no
\* identity-endpoint call; called at or after the expiry it makes exactly one
\* RefreshToken attempt, and exactly one Login attempt iff that attempt failed.
CE_C5 ==
  \A h \in Callers :
    pc[h] = "gt_token" =>
      /\ loc[h].atCheck = "before" => loc[h].nRefresh = 0 /\ loc[h].nLogin = 0
      /\ loc[h].atCheck \in {"at", "after"} =>
           /\ loc[h].nRefresh = 1
           /\ loc[h].nLogin = IF loc[h].refreshFailed THEN 1 ELSE 0

\* C5 as the code has it: GetToken called with the clock not after the expiry
\* (before it or exactly at it) makes no identity-endpoint call and goes
\* straight to returning the stored token; called with the clock after the
\* expiry it makes exactly one RefreshToken attempt, and exactly one Login
\* attempt iff that attempt failed.
Thm_C5 ==
  \A h \in Callers :
    /\ pc[h] \in RefreshPcs \cup LoginPcs \cup {"gt_token"} => loc[h].atCheck # "none"
    /\ loc[h].atCheck \in {"before", "at"} =>
         pc[h] = "gt_token" /\ loc[h].nRefresh = 0 /\ loc[h].nLogin = 0
    /\ loc[h].atCheck = "after" =>
         /\ loc[h].nRefresh = 1
         /\ loc[h].nLogin = IF loc[h].refreshFailed THEN 1 ELSE 0
         /\ pc[h] \in RefreshPcs => ~loc[h].refreshFailed
         /\ pc[h] \in LoginPcs => loc[h].refreshFailed

\* a GetToken called with the clock exactly at the expiry, about to return
Wit_C5 ==
  \E h \in Callers :
    pc[h] = "gt_token" /\ loc[h].atCheck = "at" /\ now = expiry /\ loc[h].nRefresh = 0

\* ---- C6
\* C6: one ObserveData call makes at most one reconnect attempt and at most two
\* sends; the reconnect follows a first send that failed as unavailable, the
\* second send follows a successful reconnect, and whatever the second send
\* yields is returned to the caller (no further reconnect, no third send).
Thm_C6 ==
  /\ [](\A h \in Callers :
          /\ loc[h].nReconnect <= 1 /\ loc[h].nSend <= 2
          /\ pc[h] = "reconnect" =>
               /\ loc[h].nSend = 1 /\ loc[h].nReconnect = 0
               /\ loc[h].firstErr = "unavailable"
          /\ loc[h].nReconnect = 1 => loc[h].firstErr = "unavailable"
          /\ loc[h].nSend = 2 => pc[h] = "retry" /\ loc[h].nReconnect = 1)
  /\ [][\A h \in Callers :
          (pc[h] = "retry" /\ pc'[h] # "retry" /\ exitCause' = exitCause)
            => pc'[h] = "returned"]_vars

\* a call whose retried send is in flight after its one reconnect
Wit_C6 ==
  \E h \in Callers :
    /\ pc[h] = "retry"
    /\ loc[h].nSend = 2 /\ loc[h].nReconnect = 1
    /\ loc[h].firstErr = "unavailable"

CE_C8 == exitCause \in {"none", "config", "shutdown"}

\* C8 as the code has it: the process ends on invalid startup configuration,
\* on a failure of the initial Login of NewAuthHandler, on a failure to listen
\* or to serve, on Serve returning, and on the panic of a repeated
\* StopRefresher; invalid configuration always ends it at init; no later
\* identity-endpoint failure and no downstream failure ends it.
Thm_C8 ==
  [][/\ exitCause' # exitCause =>
          /\ exitCause = "none"
          /\ CASE exitCause' = "config" -> pc["main"] = "init" /\ ~ConfigValid(env)
               [] exitCause' = "login" -> pc["main"] \in {"login", "login_parse"}
               [] exitCause' = "listen" -> pc["main"] = "listen"
               [] exitCause' \in {"serve", "shutdown"} -> pc["main"] = "serve"
               [] exitCause' = "panic" -> stopChanClosed /\ stopCalls' >= 2
               [] OTHER -> FALSE
     /\ (pc["main"] = "init" /\ pc'["main"] # "init" /\ ~ConfigValid(env))
          => exitCause' = "config"]_vars

\* the initial Login failed and ended the process before any connection was made
Wit_C8 == exitCause = "login" /\ nextHandle = 0 /\ accessToken = EmptyToken

\* ---- C9
\* C9: a Login or RefreshToken attempt that is rejected before it decodes a
\* usable entry (transport failure, non-200 status, malformed body, no entry
\* for the configured client, client_id mismatch, no refresh token) returns an
\* error and leaves the stored credential exactly as it was, empty or not; no
\* token of another client ever reaches the store.
Thm_C9 ==
  /\ [](accessToken.cid # OtherClientID /\ refreshToken.cid # OtherClientID)
  /\ [][\A t \in Tasks :
          /\ (pc[t] = "login" /\ pc'[t] \notin {"login", "login_store"})
               => authVars' = authVars
          /\ (pc[t] = "login" /\ pc'[t] = "returned")
               => /\ loc'[t].ret = "error"
                  /\ loc'[t].err \in LoginErrors \ {"token"}
          /\ (pc[t] \in {"refresh", "refresh_request"} /\ pc'[t] \notin RefreshPcs)
               => authVars' = authVars
          /\ (pc[t] \in {"refresh", "refresh_request"} /\ pc'[t] = "login")
               => /\ loc'[t].refreshFailed
                  /\ loc'[t].err \in RefreshRejections]_vars

\* a call whose Login was rejected while a credential was stored
Wit_C9 ==
  /\ accessToken # EmptyToken
  /\ KindOf(accessToken) = "valid"
  /\ \E h \in Callers :
       pc[h] = "returned" /\ loc[h].ret = "error"
         /\ loc[h].err \in {"status", "malformed", "no_client"}

\* ---- C10
\* C10: when main returns after Serve, the downstream handle that is active
\* at that moment (ObserverMiddlewareServer.conn) has been closed.
CE_C10 == exitCause = "shutdown" => conn \in closed

\* ---- C11
\* InitServing is a state main reaches: the start of the two-handler specification
Wit_InitServing == InitServing

\* C11: while the process runs, whenever no swap holds the write lock the
\* connection field and the client field refer to the same handle; that active
\* handle is open; and every other handle ever created is closed, except one a
\* call in progress is about to swap in or has just swapped out and is about
\* to close (so once the swapping call has returned, the handle it replaced
\* is closed).
Thm_C11 ==
  Alive =>
    /\ connMu = NoTask => client = conn
    /\ conn # NoHandle /\ conn \notin closed
    /\ \A x \in 1..nextHandle :
         \/ x = conn
         \/ x \in closed
         \/ \E h \in Handlers :
              \/ pc[h] = "swap" /\ loc[h].newConn = x
              \/ pc[h] \in {"swap_client", "close_old"} /\ loc[h].oldConn = x

\* two calls have reconnected concurrently: both replaced handles are closed
Wit_C11 ==
  /\ Alive
  /\ pc["h1"] = "retry" /\ pc["h2"] = "retry"
  /\ closed = {1, 2} /\ conn = 3 /\ client = 3

\* ---- C12
\* C12: a tick of the background loop with less than the threshold remaining
\* makes one RefreshToken attempt and, only after that attempt failed, one
\* Login attempt; a tick with the threshold or more remaining makes no
\* attempt; whatever the attempts yield the loop goes back to its select (the
\* process is not ended by them); the loop ends only by taking the stop case
\* of the select, which needs the stop channel closed.
Thm_C12 ==
  /\ [](LET l == loc["bg"]
        IN /\ pc["bg"] \in RefreshPcs =>
                l.nRefresh = 1 /\ l.nLogin = 0 /\ ~l.refreshFailed
           /\ pc["bg"] \in LoginPcs =>
                l.nRefresh = 1 /\ l.nLogin = 1 /\ l.refreshFailed
           /\ pc["bg"] \in {"select", "tick", "stopped"} =>
                l.nRefresh = 0 /\ l.nLogin = 0)
  /\ [][/\ (pc["bg"] = "tick" /\ pc'["bg"] = "refresh")
             => expiry - now < RefreshThreshold
        /\ (pc["bg"] = "tick" /\ pc'["bg"] = "select")
             => expiry - now >= RefreshThreshold
        /\ (pc["bg"] = "tick" /\ exitCause' = exitCause)
             => pc'["bg"] \in {"tick", "refresh", "select"}
        /\ (pc["bg"] \in RefreshPcs \cup LoginPcs /\ exitCause' = exitCause)
             => pc'["bg"] \in RefreshPcs \cup LoginPcs \cup {"select"}
        /\ pc["bg"] \in RefreshPcs \cup LoginPcs => exitCause' # "login"
        /\ (pc'["bg"] = "stopped" /\ pc["bg"] # "stopped")
             => pc["bg"] = "select" /\ stopChanClosed
        /\ pc["bg"] = "stopped" => pc'["bg"] \in {"stopped", "exited"}]_vars

\* the background loop in its Login fallback after its RefreshToken failed
Wit_C12 ==
  /\ pc["bg"] = "login"
  /\ loc["bg"].refreshFailed /\ loc["bg"].nRefresh = 1 /\ loc["bg"].nLogin = 1

\* ---- C13
\* positions at which a task has a network call in progress or is about to
\* issue one: the identity-endpoint request of Login / RefreshToken, the
\* establishment of a handle, a downstream send, the close of a handle
NetPcs == {"login", "refresh_request", "connect", "send", "reconnect", "close_old",
           "retry"}

\* C13: a task with a network call in progress holds neither the credential
\* lock nor the connection-handle lock; the credential lock is held only
\* across the store of the tokens and the expiry, the write lock only across
\* the replacement of the two connection fields.
Thm_C13 ==
  \A t \in Tasks :
    /\ pc[t] \in NetPcs => authMu # t /\ connMu # t
    /\ authMu = t => pc[t] \in {"login_parse", "refresh_parse", "exited"}
    /\ connMu = t => pc[t] \in {"swap_client", "exited"}

\* a call closing the handle it replaced while the background loop has its
\* refresh request in flight, both locks free
Wit_C13 ==
  /\ authMu = NoTask /\ connMu = NoTask
  /\ pc["bg"] = "refresh_request"
  /\ \E h \in Callers : pc[h] = "close_old"

\* ---- C14
\* C14: at startup a failed connection attempt is followed by another attempt
\* (main stays in its connect loop and the process does not exit), however
\* many attempts have failed; main leaves the loop only with a fresh handle;
\* and requests are served only once that handle is the active one.
Thm_C14 ==
  /\ [](/\ pc["main"] \in {"listen", "serve"} =>
              mainConn # NoHandle /\ mainConn \in 1..nextHandle
        /\ pc["main"] = "serve" => conn # NoHandle /\ client # NoHandle
        /\ \A h \in Handlers :
             pc[h] \notin {"off", "exited"} =>
               pc["main"] = "serve" /\ conn # NoHandle /\ client # NoHandle)
  /\ [][/\ (pc["main"] = "connect" /\ pc'["main"] # "connect")
             => \/ /\ pc'["main"] = "listen"
                   /\ nextHandle' = nextHandle + 1
                   /\ mainConn' = nextHandle'
                \/ exitCause' = "panic"
        /\ (pc["main"] = "connect"
              /\ loc'["main"].nReconnect = loc["main"].nReconnect + 1)
             => pc'["main"] = "connect" /\ exitCause' = "none"]_vars

\* main serving after initial connection attempts that failed
Wit_C14 ==
  /\ pc["main"] = "serve"
  /\ loc["main"].nReconnect >= 1
  /\ conn = mainConn /\ conn # NoHandle
  /\ \E h \in Callers : pc[h] = "send"

\* ---- C15
\* C15: once StopRefresher has closed the stop channel, the background loop
\* eventually ends (it returns, or the process ends), given that it is
\* scheduled and its identity-endpoint calls come back; and a StopRefresher
\* invocation leaves the stored access token, refresh token and expiry as
\* they were.
Thm_C15 ==
  /\ stopChanClosed ~> pc["bg"] \in {"stopped", "exited"}
  /\ [][stopCalls' # stopCalls => authVars' = authVars]_vars

\* the loop has returned after a StopRefresher that found it in the middle of a renewal
Wit_C15 ==
  /\ pc["bg"] = "stopped"
  /\ stopChanClosed /\ stopCalls = 1
  /\ accessToken # EmptyToken

\* ---- C16
\* C16: an ObserveData call whose GetToken fails (its Login returned an
\* error) returns that error; up to that return the call has issued no send
\* and no reconnect, and the return leaves the connection state as it was;
\* a call gets past GetToken only without an error.
Thm_C16 ==
  /\ [](\A h \in Callers :
          /\ pc[h] \in {"get_token", "gt_token"} \cup RefreshPcs \cup LoginPcs =>
               loc[h].nSend = 0 /\ loc[h].nReconnect = 0
          /\ pc[h] = "gt_token" => loc[h].err = "nil"
          /\ pc[h] \in SendPcs => loc[h].gotToken /\ ~testMode)
  /\ [][\A h \in Callers :
          /\ (pc[h] \in {"login", "login_parse"} /\ pc'[h] = "returned")
               => /\ loc'[h].ret = "error"
                  /\ loc'[h].err \in LoginErrors
                  /\ loc'[h].response = "none"
                  /\ connVars' = connVars
          /\ (pc[h] = "login_parse" /\ parseTokenExpiry(accessToken).err
                /\ pc'[h] # pc[h] /\ exitCause' = exitCause)
               => pc'[h] = "returned"]_vars

\* with test mode off, a call has returned the error of its GetToken while
\* the active handle is the one of startup, still open
Wit_C16 ==
  /\ ~testMode /\ Alive
  /\ conn = mainConn /\ conn # NoHandle /\ conn \notin closed
  /\ \E h \in Callers :
       pc[h] = "returned" /\ loc[h].ret = "error" /\ loc[h].err \in LoginErrors

\* ---- C17
\* C17: whatever token the caller put in its request (none included), the
\* request ObserveData forwards carries, at the first send and at the retried
\* send alike, the token its GetToken returned (the stored access token read
\* at GetToken's return); a caller's token that differs from it is never sent.
Thm_C17 ==
  /\ [](\A h \in Handlers :
          pc[h] \in SendPcs =>
            /\ loc[h].sentToken = loc[h].jwtToken
            /\ loc[h].reqToken # loc[h].jwtToken => loc[h].sentToken # loc[h].reqToken)
  /\ [][\A h \in Handlers :
          /\ (pc[h] = "gt_token" /\ pc'[h] = "read_client")
               => loc'[h].jwtToken = accessToken
          /\ (pc[h] \in SendPcs /\ pc'[h] \in SendPcs)
               => /\ loc'[h].sentToken = loc[h].sentToken
                  /\ loc'[h].jwtToken = loc[h].jwtToken
                  /\ loc'[h].reqToken = loc[h].reqToken]_vars

\* a retried send in flight for a request that came with a caller's token
Wit_C17 ==
  \E h \in Callers :
    /\ pc[h] = "retry"
    /\ loc[h].reqToken = CallerToken
    /\ loc[h].sentToken = accessToken /\ KindOf(accessToken) = "valid"

\* ---- C18
\* C18: the entry a Login takes from a decoded response is one whose
\* client_id is the configured client ID; the Login stores that entry's
\* access token and refresh token; and when the access token parses (the
\* Login succeeds) the stored expiry is the "exp" of that access token.
Thm_C18 ==
  [][\A t \in Tasks :
       /\ (pc[t] = "login" /\ pc'[t] = "login_store")
            => /\ loc'[t].found.at.cid = authClientID
               /\ loc'[t].found.rt \in {EmptyRefresh, RefreshTokenFor(authClientID)}
       /\ (pc[t] = "login_store" /\ pc'[t] = "login_parse")
            => accessToken' = loc[t].found.at /\ refreshToken' = loc[t].found.rt
       /\ (pc[t] = "login_parse" /\ pc'[t] \notin {"login_parse", "exited"}
             /\ ~parseTokenExpiry(accessToken).err)
            => /\ accessToken.cid = authClientID
               /\ expiry' = accessToken.exp
               /\ accessToken' = accessToken /\ refreshToken' = refreshToken]_vars

\* the credential of the configured client stored by the initial Login
Wit_C18 ==
  /\ pc["main"] = "started"
  /\ authClientID # 0
  /\ accessToken.cid = authClientID /\ refreshToken = RefreshTokenFor(authClientID)
  /\ expiry = accessToken.exp /\ expiry # NoExp

\* ---- C19
\* C19: when a send (the first or the retried one) comes back with a
\* response of status "error", ObserveData returns that response with no
\* error value in the same step: no reconnect and no further send follows,
\* and the connection state is left as it was.
Thm_C19 ==
  /\ [](\A h \in Callers :
          (pc[h] = "returned" /\ (loc[h].response = "error" \/ loc[h].err = "error"))
            => loc[h].response = "error" /\ loc[h].ret = "error_status"
                 /\ loc[h].err = "nil")
  /\ [][\A h \in Callers :
          (pc[h] \in {"send", "retry"} /\ pc'[h] = "returned"
             /\ loc'[h].response = "error")
            => /\ loc'[h].ret = "error_status" /\ loc'[h].err = "nil"
               /\ connVars' = connVars
               /\ pc[h] = "send" => loc[h].nSend = 1 /\ loc[h].nReconnect = 0
               /\ pc[h] = "retry" => loc[h].nSend = 2 /\ loc[h].nReconnect = 1]_vars

\* a call has returned the downstream response of status "error"
Wit_C19 ==
  /\ Alive
  /\ \E h \in Callers :
       pc[h] = "returned" /\ loc[h].response = "error" /\ loc[h].ret = "error_status"
         /\ conn = mainConn

\* ---- C20
\* C20: the active handle is replaced only by the swap of a call whose first
\* send failed as unavailable and whose reconnect produced a new handle; a
\* first send that fails otherwise, and a reconnect that produces no handle,
\* make the call return at once (no retried send) with the error of the first
\* send, the connection state as it was and the active handle open.
Thm_C20 ==
  /\ [](Alive /\ conn # NoHandle => conn \notin closed)
  /\ [][/\ (conn' # conn /\ conn # NoHandle)
             => \E h \in Callers :
                  /\ pc[h] = "swap" /\ pc'[h] = "swap_client"
                  /\ loc[h].firstErr = "unavailable"
                  /\ loc[h].nSend = 1 /\ loc[h].nReconnect = 1
                  /\ conn' = loc[h].newConn
                  /\ conn' # NoHandle /\ conn' \notin closed
        /\ \A h \in Callers :
             /\ (pc[h] = "send" /\ pc'[h] = "reconnect")
                  => loc'[h].firstErr = "unavailable" /\ connVars' = connVars
             /\ (pc[h] = "send" /\ pc'[h] = "returned")
                  => /\ connVars' = connVars
                     /\ loc[h].nSend = 1 /\ loc[h].nReconnect = 0
                     /\ loc'[h].ret = "error" => loc'[h].err \in {"deadline", "canceled"}
             /\ (pc[h] = "reconnect" /\ pc'[h] \notin {"reconnect", "exited"}
                   /\ nextHandle' = nextHandle)
                  => /\ pc'[h] = "returned"
                     /\ connVars' = connVars
                     /\ loc[h].nSend = 1
                     /\ loc'[h].ret = "error"
                     /\ loc'[h].err = loc[h].firstErr
                     /\ loc[h].firstErr = "unavailable"]_vars

\* a call has returned the unavailable error of its first send after a failed
\* reconnect: the handle of startup is still the active one, and open
\* (a retried send that failed would have left another handle active)
Wit_C20 ==
  /\ Alive
  /\ conn = mainConn /\ client = mainConn /\ conn \notin closed /\ nextHandle = 1
  /\ \E h \in Callers :
       pc[h] = "returned" /\ loc[h].ret = "error" /\ loc[h].err = "unavailable"

\* ------------------------------------ renewals from two goroutines at once
\* The process once main has reached Serve (line 229) with a credential that
\* expires within the horizon: the background loop and a handler goroutine
\* both come to renew it.
InitRenewing ==
  /\ env = [clientID |-> "2", email |-> "set", password |-> "set", testMode |-> FALSE]
  /\ authClientID = 2
  /\ testMode = FALSE
  /\ pc = [t \in Tasks |-> CASE t = "main" -> "serve"
                            [] t = "bg" -> "select"
                            [] OTHER -> "off"]
  /\ loc = [t \in Tasks |-> IF t = "main"
                              THEN [InitLocals EXCEPT !.nLogin = 1, !.wrote = TRUE]
                              ELSE InitLocals]
  /\ accessToken = AccessTokenFor(2, 1)
  /\ refreshToken = RefreshTokenFor(2)
  /\ expiry = 1
  /\ authMu = NoTask
  /\ tickPending = FALSE
  /\ tickerRunning = TRUE
  /\ stopChanClosed = FALSE
  /\ stopCalls = 0
  /\ conn = 1
  /\ client = 1
  /\ connMu = NoTask
  /\ mainConn = 1
  /\ closed = {}
  /\ nextHandle = 1
  /\ now = 0
  /\ exitCause = "none"

\* the background loop and one handler goroutine, each renewing on its own
NextRenew ==
  \/ BgStep
  \/ \E h \in Renewers : ObserveDataCall(h)
  \/ \E h \in Renewers : GetTokenCheck(h)
  \/ \E h \in Renewers : RefreshRead(h)
  \/ \E h \in Renewers : RefreshRequest(h)
  \/ \E h \in Renewers : RefreshStore(h)
  \/ \E h \in Renewers : RefreshParse(h)
  \/ \E h \in Renewers : LoginRequest(h)
  \/ \E h \in Renewers : LoginStore(h)
  \/ \E h \in Renewers : LoginParse(h)
  \/ \E h \in Renewers : GetTokenReturn(h)
  \/ \E h \in Renewers : ReadClient(h)
  \/ \E h \in Renewers : FirstSend(h)
  \/ \E h \in Renewers : Reconnect(h)
  \/ \E h \in Renewers : SwapConn(h)
  \/ \E h \in Renewers : SwapClient(h)
  \/ \E h \in Renewers : CloseOld(h)
  \/ \E h \in Renewers : RetrySend(h)
  \/ Tick

SpecRenew == InitRenewing /\ [][NextRenew]_vars

\* the state SpecRenew starts from is a state of the whole process
Wit_InitRenewing == InitRenewing

\* ---- C21
\* C21: with concurrent ObserveData calls, a send in progress (the first one,
\* on the client the call read, or the retried one, on the handle the call
\* established) is never on a handle that has been closed.
CE_C21 ==
  \A h \in Handlers :
    /\ pc[h] = "send" => loc[h].client \notin closed
    /\ pc[h] = "retry" => loc[h].newConn \notin closed

\* ---- C22
\* C22: however the background loop's renewal and a GetToken renewal
\* interleave, no task stores a well-formed credential over a well-formed
\* stored credential that the identity endpoint issued later than it: a
\* successful replacement never puts an earlier-issued credential over a
\* later-issued one.
CE_C22 ==
  [][\A t \in Tasks :
       (/\ pc[t] \in StorePcs
        /\ pc'[t] \in {"login_parse", "refresh_parse"}
        /\ ~parseTokenExpiry(loc[t].found.at).err
        /\ ~parseTokenExpiry(accessToken).err)
       => ~loc[t].overtaken]_vars

\* ---- C23
\* C23: once StopRefresher has returned (the stop channel is closed), the
\* background loop begins no renewal: it enters neither RefreshToken nor the
\* Login fallback, whether or not a tick was pending when the stop was sent.
CE_C23 ==
  [][stopChanClosed =>
       /\ ~(pc["bg"] = "tick" /\ pc'["bg"] = "refresh")
       /\ ~(pc["bg"] \in RefreshPcs /\ pc'["bg"] = "login")]_vars

====
